---------------------------- MODULE Spec2Model ----------------------------
(***************************************************************************)
(* Track fusion of eglrp/photogram (src/tracks.hpp): TracksBuilder builds  *)
(* feature tracks from pairwise matches with a lemon::UnionFindEnum, prunes *)
(* classes with Filter and FilterPairWiseMinimumMatches, and exports the    *)
(* surviving classes with ExportToSTL.                                      *)
(*                                                                          *)
(* Vectors of the program (std::vector, flat_pair_map) are functions over   *)
(* 0..n-1.  An Image::ptr is modelled by its rank in the pointer order.     *)
(***************************************************************************)
EXTENDS Integers, Sequences, FiniteSets

\* Bounds of the model.
NumImages == 2
NumFeats == 2
MaxPairs == 3
MaxMatchesPerPair == 1
MaxTrackLength == 2
MaxOccurrences == 2

VARIABLES
  phase,           \* "new" | "built" | "exported": position in the pipeline
  image_pairs,     \* the argument Build was called with
  g,               \* lemon::ListDigraph g: its nodes in NodeIt order
  reverse_my_Map,  \* MapNodeIndex reverse_my_Map
  index,           \* IndexMap: node -> position in the union-find's items
  myTracksUF,      \* lemon::UnionFindEnum<IndexMap>
  map_tracks,      \* the STLMAPTracks written by ExportToSTL
  lastCall,        \* the last member function called and its argument
  lengthAsked,     \* the largest argument Filter was called with, -1 if none
  twin             \* a second builder, fed the same input plus one duplicate

vars == <<phase, image_pairs, g, reverse_my_Map, index, myTracksUF,
          map_tracks, lastCall, lengthAsked, twin>>

-----------------------------------------------------------------------------
(* Vectors over 0..n-1 *)

Size(v) == Cardinality(DOMAIN v)

PushBack(v, x) == [i \in 0..Size(v) |-> IF i < Size(v) THEN v[i] ELSE x]

EmptyVec == [i \in {} |-> 0]

RECURSIVE SeqsUpTo(_, _)
SeqsUpTo(S, n) ==
  IF n = 0 THEN {<<>>}
  ELSE LET shorter == SeqsUpTo(S, n - 1)
       IN  shorter \cup {Append(s, x) : s \in {t \in shorter : Len(t) = n - 1}, x \in S}

\* The elements of a set of integers in ascending order (std::set<int>
\* iteration, std::sort + std::unique).
RECURSIVE Ascending(_)
Ascending(S) ==
  IF S = {} THEN <<>>
  ELSE LET m == CHOOSE x \in S : \A y \in S : x <= y
       IN  <<m>> \o Ascending(S \ {m})

-----------------------------------------------------------------------------
(* Input types *)

ImageIds == 0..(NumImages - 1)
FeatIdxs == 0..(NumFeats - 1)

IndMatch == [trainIdx : FeatIdxs, queryIdx : FeatIdxs]

ImagePair == [first : ImageIds, second : ImageIds,
              matches : SeqsUpTo(IndMatch, MaxMatchesPerPair)]

Inputs == SeqsUpTo(ImagePair, MaxPairs)

\* indexedFeaturePair: std::pair<Image::ptr, int>, ordered lexicographically.
indexedFeaturePair(img, feat) == [first |-> img, second |-> feat]

PairLess(a, b) ==
  \/ a.first < b.first
  \/ a.first = b.first /\ a.second < b.second

-----------------------------------------------------------------------------
(* flat_pair_map *)

\* std::lower_bound(m_vec.begin(), m_vec.end(), val, superiorToFirst) for
\* flat_pair_map<Node, indexedFeaturePair>: the first position whose key is
\* not less than val (Size(vec) when there is none).
lower_bound_node(vec, val) ==
  LET notLess == {i \in DOMAIN vec : ~(vec[i].first < val)}
  IN  IF notLess = {} THEN Size(vec)
      ELSE CHOOSE i \in notLess : \A j \in notLess : i <= j

\* The same for flat_pair_map<indexedFeaturePair, Node>.
lower_bound_key(vec, val) ==
  LET notLess == {i \in DOMAIN vec : ~PairLess(vec[i].first, val)}
  IN  IF notLess = {} THEN Size(vec)
      ELSE CHOOSE i \in notLess : \A j \in notLess : i <= j

\* flat_pair_map::operator[] and find(...)->second on reverse_my_Map.
NodeLookup(rmap, node) == rmap[lower_bound_node(rmap, node)].second

\* flat_pair_map::operator[] on my_Map.
KeyLookup(my_Map, key) == my_Map[lower_bound_key(my_Map, key)].second

-----------------------------------------------------------------------------
(* lemon::UnionFindEnum<IndexMap>                                          *)
(* A record [items, classes, firstFreeItem, firstClass, firstFreeClass].    *)
(* items[i] = [parent, item, next, prev]: a negative parent marks a root    *)
(* and holds ~class; next/prev lace the cyclic list of a class's items.     *)
(* classes[c] = [size, firstItem, next, prev]: next/prev lace the list of   *)
(* the classes present, which starts at firstClass.                         *)

\* ~x of C++ on int.
Compl(x) == -x - 1

UnionFindEnum ==
  [items |-> EmptyVec, classes |-> EmptyVec,
   firstFreeItem |-> -1, firstClass |-> -1, firstFreeClass |-> -1]

\* newItem(): the position it returns, and the structure afterwards.
newItemIdx(uf) ==
  IF uf.firstFreeItem = -1 THEN Size(uf.items) ELSE uf.firstFreeItem

newItem(uf) ==
  IF uf.firstFreeItem = -1
  THEN [uf EXCEPT !.items =
          PushBack(@, [parent |-> 0, item |-> -1, next |-> 0, prev |-> 0])]
  ELSE [uf EXCEPT !.firstFreeItem = uf.items[uf.firstFreeItem].next]

\* newClass()
newClassIdx(uf) ==
  IF uf.firstFreeClass = -1 THEN Size(uf.classes) ELSE uf.firstFreeClass

newClass(uf) ==
  IF uf.firstFreeClass = -1
  THEN [uf EXCEPT !.classes =
          PushBack(@, [size |-> 0, firstItem |-> 0, next |-> 0, prev |-> 0])]
  ELSE [uf EXCEPT !.firstFreeClass = uf.classes[uf.firstFreeClass].next]

\* laceClass(cls): push cls on the front of the list of classes.
laceClass(uf, cls) ==
  LET c1 == IF uf.firstClass # -1
            THEN [uf.classes EXCEPT ![uf.firstClass].prev = cls]
            ELSE uf.classes
  IN  [uf EXCEPT !.classes = [c1 EXCEPT ![cls].next = uf.firstClass,
                                        ![cls].prev = -1],
                 !.firstClass = cls]

\* unlaceClass(cls): unlink cls from the list of classes, onto the free list.
unlaceClass(uf, cls) ==
  LET c0 == uf.classes
      c1 == IF c0[cls].prev # -1
            THEN [c0 EXCEPT ![c0[cls].prev].next = c0[cls].next]
            ELSE c0
      first1 == IF c0[cls].prev # -1 THEN uf.firstClass ELSE c0[cls].next
      c2 == IF c1[cls].next # -1
            THEN [c1 EXCEPT ![c1[cls].next].prev = c1[cls].prev]
            ELSE c1
  IN  [uf EXCEPT !.classes = [c2 EXCEPT ![cls].next = uf.firstFreeClass],
                 !.firstClass = first1,
                 !.firstFreeClass = cls]

\* insert(item): a new singleton class; index.set(item, idx).
insert(S, item) ==
  LET idx == newItemIdx(S.uf)
      u1 == newItem(S.uf)
      u2 == [u1 EXCEPT !.items[idx].next = idx,
                       !.items[idx].prev = idx,
                       !.items[idx].item = item]
      cdx == newClassIdx(u2)
      u3 == newClass(u2)
      u4 == [u3 EXCEPT !.items[idx].parent = Compl(cdx)]
      u5 == laceClass(u4, cdx)
      u6 == [u5 EXCEPT !.classes[cdx].size = 1,
                       !.classes[cdx].firstItem = idx,
                       !.firstClass = cdx]
  IN  [uf |-> u6, index |-> [n \in DOMAIN S.index \cup {item} |->
                               IF n = item THEN idx ELSE S.index[n]]]

\* rep(idx)
rep(items, idx) == items[idx].parent < 0

\* repIndex(idx): the root above idx ...
RECURSIVE repRoot(_, _)
repRoot(items, k) == IF rep(items, k) THEN k ELSE repRoot(items, items[k].parent)

\* ... and the path from idx to it compressed.
RECURSIVE compress(_, _, _)
compress(items, idx, k) ==
  IF idx = k THEN items
  ELSE compress([items EXCEPT ![idx].parent = k], items[idx].parent, k)

\* spliceItems(ak, bk): merge two cyclic item lists.
spliceItems(items, ak, bk) ==
  LET i1 == [items EXCEPT ![items[ak].prev].next = bk]
      i2 == [i1 EXCEPT ![i1[bk].prev].next = ak]
      tmp == i2[ak].prev
      i3 == [i2 EXCEPT ![ak].prev = i2[bk].prev]
  IN  [i3 EXCEPT ![bk].prev = tmp]

\* join(a, b): union by size; on a tie, and when b's class is larger, b's
\* class survives and a's is unlaced.
join(uf, idxmap, a, b) ==
  LET ak == repRoot(uf.items, idxmap[a])
      it1 == compress(uf.items, idxmap[a], ak)
      bk == repRoot(it1, idxmap[b])
      it2 == compress(it1, idxmap[b], bk)
      u0 == [uf EXCEPT !.items = it2]
      acx == Compl(it2[ak].parent)
      bcx == Compl(it2[bk].parent)
  IN  IF ak = bk THEN u0
      ELSE IF u0.classes[acx].size > u0.classes[bcx].size
      THEN LET u1 == [u0 EXCEPT !.classes[acx].size = @ + u0.classes[bcx].size,
                                !.items[bk].parent = ak]
               u2 == unlaceClass(u1, bcx)
           IN  [u2 EXCEPT !.items = spliceItems(@, ak, bk)]
      ELSE LET u1 == [u0 EXCEPT !.classes[bcx].size = @ + u0.classes[acx].size,
                                !.items[ak].parent = bk]
               u2 == unlaceClass(u1, acx)
           IN  [u2 EXCEPT !.items = spliceItems(@, ak, bk)]

\* eraseClass(cls): unlace the class; its items go to the free list.
eraseClass(uf, cls) ==
  LET fdx == uf.classes[cls].firstItem
      u1 == unlaceClass(uf, cls)
  IN  [u1 EXCEPT !.items[u1.items[fdx].prev].next = u1.firstFreeItem,
                 !.firstFreeItem = fdx]

\* ClassIt: the classes present, from firstClass along next.
RECURSIVE ClassItFrom(_, _)
ClassItFrom(uf, cdx) ==
  IF cdx = -1 THEN <<>> ELSE <<cdx>> \o ClassItFrom(uf, uf.classes[cdx].next)

ClassIt(uf) == ClassItFrom(uf, uf.firstClass)

\* ItemIt(cls): positions of the items of a class, from firstItem along next
\* until the list returns to firstItem.
RECURSIVE ItemItFrom(_, _, _)
ItemItFrom(uf, idx, fdx) ==
  LET nxt == uf.items[idx].next
  IN  <<idx>> \o (IF nxt = fdx THEN <<>> ELSE ItemItFrom(uf, nxt, fdx))

ItemIt(uf, cls) ==
  ItemItFrom(uf, uf.classes[cls].firstItem, uf.classes[cls].firstItem)

-----------------------------------------------------------------------------
(* TracksBuilder *)

\* Mutant of MatchesOfPair: trainIdx taken for the second image and queryIdx
\* for the first.
RECURSIVE MatchesOfPairSwapped(_, _, _)
MatchesOfPairSwapped(first, second, matches) ==
  IF matches = <<>> THEN <<>>
  ELSE <<[first_pair |-> indexedFeaturePair(first, Head(matches).queryIdx),
          second_pair |-> indexedFeaturePair(second, Head(matches).trainIdx)]>>
       \o MatchesOfPairSwapped(first, second, Tail(matches))

\* The matches of the input in the order the two loops of Build visit them,
\* each as the two indexedFeaturePairs it relates: (first, trainIdx) and
\* (second, queryIdx).
RECURSIVE MatchesOfPair(_, _, _)
MatchesOfPair(first, second, matches) ==
  IF matches = <<>> THEN <<>>
  ELSE <<[first_pair |-> indexedFeaturePair(first, Head(matches).trainIdx),
          second_pair |-> indexedFeaturePair(second, Head(matches).queryIdx)]>>
       \o MatchesOfPair(first, second, Tail(matches))

RECURSIVE AllMatches(_)
AllMatches(pairs) ==
  IF pairs = <<>> THEN <<>>
  ELSE MatchesOfPair(Head(pairs).first, Head(pairs).second, Head(pairs).matches)
       \o AllMatches(Tail(pairs))

\* Build, first loop: std::set<indexedFeaturePair> myset.
myset(pairs) ==
  LET ms == AllMatches(pairs)
  IN  {ms[i].first_pair : i \in DOMAIN ms} \cup {ms[i].second_pair : i \in DOMAIN ms}

\* Iteration of myset: ascending in the order of std::pair.
RECURSIVE SetOrder(_)
SetOrder(S) ==
  IF S = {} THEN <<>>
  ELSE LET m == CHOOSE x \in S : \A y \in S \ {x} : PairLess(x, y)
       IN  <<m>> \o SetOrder(S \ {m})

\* ListDigraph::addNode(): the new node gets the next id and becomes the
\* first node of the graph's node list, which NodeIt walks.
addNode(graph) == <<Len(graph)>> \o graph

\* flat_pair_map::sort() of reverse_my_Map (keys: nodes, all distinct).
RECURSIVE sort_node(_)
sort_node(vec) ==
  IF DOMAIN vec = {} THEN EmptyVec
  ELSE LET n == Size(vec)
           mx == CHOOSE i \in DOMAIN vec : \A j \in DOMAIN vec : ~(vec[i].first < vec[j].first)
           rest == [i \in 0..(n - 2) |-> IF i < mx THEN vec[i] ELSE vec[i + 1]]
       IN  PushBack(sort_node(rest), vec[mx])

\* flat_pair_map::sort() of my_Map (keys: indexedFeaturePair, all distinct).
RECURSIVE sort_key(_)
sort_key(vec) ==
  IF DOMAIN vec = {} THEN EmptyVec
  ELSE LET n == Size(vec)
           mx == CHOOSE i \in DOMAIN vec : \A j \in DOMAIN vec : ~PairLess(vec[i].first, vec[j].first)
           rest == [i \in 0..(n - 2) |-> IF i < mx THEN vec[i] ELSE vec[i + 1]]
       IN  PushBack(sort_key(rest), vec[mx])

\* Build, second loop: one node per element of myset, pushed on both maps.
RECURSIVE BuildNodes(_, _)
BuildNodes(keys, B) ==
  IF keys = <<>> THEN B
  ELSE LET node == Len(B.g)
       IN  BuildNodes(Tail(keys),
             [g |-> addNode(B.g),
              my_Map |-> PushBack(B.my_Map, [first |-> Head(keys), second |-> node]),
              reverse_my_Map |-> PushBack(B.reverse_my_Map,
                                          [first |-> node, second |-> Head(keys)])])

\* Build, third loop: insert every node of g, in NodeIt order.
RECURSIVE InsertAll(_, _)
InsertAll(nodes, S) ==
  IF nodes = <<>> THEN S ELSE InsertAll(Tail(nodes), insert(S, Head(nodes)))

\* Mutant of JoinAll: the loop stops one match early.
RECURSIVE JoinAllButLast(_, _, _, _)
JoinAllButLast(ms, my_Map, idxmap, uf) ==
  IF Len(ms) <= 1 THEN uf
  ELSE JoinAllButLast(Tail(ms), my_Map, idxmap,
               join(uf, idxmap, KeyLookup(my_Map, Head(ms).first_pair),
                                KeyLookup(my_Map, Head(ms).second_pair)))

\* Build, fourth loop: join the two ends of every match.
RECURSIVE JoinAll(_, _, _, _)
JoinAll(ms, my_Map, idxmap, uf) ==
  IF ms = <<>> THEN uf
  ELSE JoinAll(Tail(ms), my_Map, idxmap,
               join(uf, idxmap, KeyLookup(my_Map, Head(ms).first_pair),
                                KeyLookup(my_Map, Head(ms).second_pair)))

\* Build(image_pairs): the builder's members afterwards.
BuildResult(pairs) ==
  LET B == BuildNodes(SetOrder(myset(pairs)),
                      [g |-> <<>>, my_Map |-> EmptyVec, reverse_my_Map |-> EmptyVec])
      my_Map == sort_key(B.my_Map)
      rmap == sort_node(B.reverse_my_Map)
      S == InsertAll(B.g, [uf |-> UnionFindEnum, index |-> EmptyVec])
  IN  [g |-> B.g,
       reverse_my_Map |-> rmap,
       index |-> S.index,
       myTracksUF |-> JoinAll(AllMatches(pairs), my_Map, S.index, S.uf)]

\* The Image::ptr of the item at position idx: reverse_my_Map[iit].first.
ImageOfItem(uf, rmap, idx) == NodeLookup(rmap, uf.items[idx].item).first

\* Mutant of ClassIsBad: only the length is tested, not the conflict.
ClassIsBadLengthOnly(uf, rmap, cit, nLengthSupTo) ==
  LET its == ItemIt(uf, cit)
      imgs == {ImageOfItem(uf, rmap, its[i]) : i \in DOMAIN its}
  IN  Cardinality(imgs) < nLengthSupTo

\* Mutant of ClassIsBad: <= for <, a class of exactly the length asked is bad.
ClassIsBadOffByOne(uf, rmap, cit, nLengthSupTo) ==
  LET its == ItemIt(uf, cit)
      cpt == Len(its)
      imgs == {ImageOfItem(uf, rmap, its[i]) : i \in DOMAIN its}
  IN  Cardinality(imgs) # cpt \/ Cardinality(imgs) <= nLengthSupTo

\* Filter, the test of one class (line 175): cpt members, myset their images.
ClassIsBad(uf, rmap, cit, nLengthSupTo) ==
  LET its == ItemIt(uf, cit)
      cpt == Len(its)
      imgs == {ImageOfItem(uf, rmap, its[i]) : i \in DOMAIN its}
  IN  Cardinality(imgs) # cpt \/ Cardinality(imgs) < nLengthSupTo

\* Filter: std::set<int> set_classToErase.
set_classToErase(uf, rmap, nLengthSupTo) ==
  LET cs == ClassIt(uf)
  IN  {cs[i] : i \in {j \in DOMAIN cs : ClassIsBad(uf, rmap, cs[j], nLengthSupTo)}}

\* for_each(..., eraseClass) over class ids in ascending order.
RECURSIVE EraseAll(_, _)
EraseAll(uf, ids) ==
  IF ids = <<>> THEN uf ELSE EraseAll(eraseClass(uf, Head(ids)), Tail(ids))

\* Filter(nLengthSupTo): the union-find afterwards.
FilterResult(uf, rmap, nLengthSupTo) ==
  EraseAll(uf, Ascending(set_classToErase(uf, rmap, nLengthSupTo)))

\* FilterPairWiseMinimumMatches: map_tracksIdPerImages, image -> ids of the
\* classes with an item in the image (only images with such a class are keys).
map_tracksIdPerImages(uf, rmap) ==
  LET cs == ClassIt(uf)
      imgsOf(c) == LET its == ItemIt(uf, c)
                   IN  {ImageOfItem(uf, rmap, its[i]) : i \in DOMAIN its}
      keys == UNION {imgsOf(cs[i]) : i \in DOMAIN cs}
  IN  [img \in keys |-> {cs[i] : i \in {j \in DOMAIN cs : img \in imgsOf(cs[j])}}]

\* Mutant of PairIsWeak: <= for <.
PairIsWeakOffByOne(setA, setB, minMatchesOccurences) ==
  Cardinality(setA \cap setB) <= minMatchesOccurences

\* The test of one pair of images (line 216), iter2 starting at iter.
PairIsWeak(setA, setB, minMatchesOccurences) ==
  Cardinality(setA \cap setB) < minMatchesOccurences

\* Mutant of vec_tracksToRemove: iter2 starts after iter, no image is paired
\* with itself.
vec_tracksToRemoveNoDiagonal(uf, rmap, minMatchesOccurences) ==
  LET m == map_tracksIdPerImages(uf, rmap)
      inter(iter, iter2) == m[iter] \cap m[iter2]
      removed(iter) ==
        UNION {inter(iter, iter2) : iter2 \in
                 {k \in DOMAIN m : k > iter /\ Cardinality(inter(iter, k)) < minMatchesOccurences}}
  IN  Ascending(UNION {removed(iter) : iter \in DOMAIN m})

\* vec_tracksToRemove after sort and unique.
vec_tracksToRemove(uf, rmap, minMatchesOccurences) ==
  LET m == map_tracksIdPerImages(uf, rmap)
      inter(iter, iter2) == m[iter] \cap m[iter2]
      removed(iter) ==
        UNION {inter(iter, iter2) : iter2 \in
                 {k \in DOMAIN m : k >= iter /\ PairIsWeak(m[iter], m[k], minMatchesOccurences)}}
  IN  Ascending(UNION {removed(iter) : iter \in DOMAIN m})

\* FilterPairWiseMinimumMatches(minMatchesOccurences): the union-find afterwards.
FilterPairWiseResult(uf, rmap, minMatchesOccurences) ==
  EraseAll(uf, vec_tracksToRemove(uf, rmap, minMatchesOccurences))

\* Mutant of NbTracksOf: the classes no longer laced are counted.
NbTracksUnlaced(uf) == Size(uf.classes) - Len(ClassIt(uf))

\* NbTracks()
NbTracksOf(uf) == Len(ClassIt(uf))

\* ExportToSTL, inner loop: iterN->second[currentPair.first] = currentPair.second
\* for the items of one class in ItemIt order; a later item of the same image
\* replaces the earlier one.
RECURSIVE ExportItems(_, _, _, _)
ExportItems(uf, rmap, its, track) ==
  IF its = <<>> THEN track
  ELSE LET currentPair == NodeLookup(rmap, uf.items[Head(its)].item)
       IN  ExportItems(uf, rmap, Tail(its),
             [img \in DOMAIN track \cup {currentPair.first} |->
                IF img = currentPair.first THEN currentPair.second ELSE track[img]])

\* ExportToSTL: track cptClass is the cptClass-th class of ClassIt.
ExportResult(uf, rmap) ==
  LET cs == ClassIt(uf)
  IN  [cptClass \in 0..(Len(cs) - 1) |->
         ExportItems(uf, rmap, ItemIt(uf, cs[cptClass + 1]), EmptyVec)]

-----------------------------------------------------------------------------
(* The pipeline: Build once, the two filters any number of times, export last *)

\* shared_ptr members before Build.
nullptr == "nullptr"

Call(op, arg) == [op |-> op, arg |-> arg]

Init ==
  /\ phase = "new"
  /\ image_pairs = <<>>
  /\ g = <<>>
  /\ reverse_my_Map = EmptyVec
  /\ index = nullptr
  /\ myTracksUF = nullptr
  /\ map_tracks = EmptyVec
  /\ lastCall = Call("none", 0)
  /\ lengthAsked = -1
  /\ twin = "none"

BuildStep(pairs) ==
  /\ phase = "new"
  /\ LET B == BuildResult(pairs)
     IN  /\ g' = B.g
         /\ reverse_my_Map' = B.reverse_my_Map
         /\ index' = B.index
         /\ myTracksUF' = B.myTracksUF
  /\ image_pairs' = pairs
  /\ phase' = "built"
  /\ UNCHANGED map_tracks

FilterStep(nLengthSupTo) ==
  /\ phase = "built"
  /\ myTracksUF' = FilterResult(myTracksUF, reverse_my_Map, nLengthSupTo)
  /\ UNCHANGED <<phase, image_pairs, g, reverse_my_Map, index, map_tracks>>

FilterPairWiseStep(minMatchesOccurences) ==
  /\ phase = "built"
  /\ myTracksUF' = FilterPairWiseResult(myTracksUF, reverse_my_Map, minMatchesOccurences)
  /\ UNCHANGED <<phase, image_pairs, g, reverse_my_Map, index, map_tracks>>

ExportStep ==
  /\ phase = "built"
  /\ map_tracks' = ExportResult(myTracksUF, reverse_my_Map)
  /\ phase' = "exported"
  /\ UNCHANGED <<image_pairs, g, reverse_my_Map, index, myTracksUF>>

Build ==
  /\ phase = "new"
  /\ \E pairs \in Inputs : BuildStep(pairs)
  /\ lastCall' = Call("Build", 0)
  /\ UNCHANGED <<lengthAsked, twin>>

Filter == \E nLengthSupTo \in 0..MaxTrackLength :
  /\ FilterStep(nLengthSupTo)
  /\ lastCall' = Call("Filter", nLengthSupTo)
  /\ lengthAsked' = IF nLengthSupTo > lengthAsked THEN nLengthSupTo ELSE lengthAsked
  /\ UNCHANGED twin

FilterPairWiseMinimumMatches == \E minMatchesOccurences \in 1..MaxOccurrences :
  /\ FilterPairWiseStep(minMatchesOccurences)
  /\ lastCall' = Call("FilterPairWiseMinimumMatches", minMatchesOccurences)
  /\ UNCHANGED <<lengthAsked, twin>>

ExportToSTL ==
  /\ ExportStep
  /\ lastCall' = Call("ExportToSTL", 0)
  /\ UNCHANGED <<lengthAsked, twin>>

Next == Build \/ Filter \/ FilterPairWiseMinimumMatches \/ ExportToSTL

Spec == Init /\ [][Next]_vars

-----------------------------------------------------------------------------
(* Two builders side by side: the second is given the same input with one   *)
(* match duplicated, and every later call is made on both.                  *)

InsertAt(seq, at, x) == SubSeq(seq, 1, at) \o <<x>> \o SubSeq(seq, at + 1, Len(seq))

\* A duplicate of match i of pair record p: inside that record's match list
\* after `at` of its matches, or alone in a new record for the same two images
\* after `at` of the records.
Duplications(pairs) ==
  UNION {UNION {
      {[p |-> p, i |-> i, newPair |-> FALSE, at |-> at] : at \in 0..Len(pairs[p].matches)}
      \cup {[p |-> p, i |-> i, newPair |-> TRUE, at |-> at] : at \in 0..Len(pairs)}
    : i \in DOMAIN pairs[p].matches} : p \in DOMAIN pairs}

WithDuplicate(pairs, d) ==
  LET match == pairs[d.p].matches[d.i]
  IN  IF d.newPair
      THEN InsertAt(pairs, d.at, [first |-> pairs[d.p].first,
                                  second |-> pairs[d.p].second,
                                  matches |-> <<match>>])
      ELSE [pairs EXCEPT ![d.p].matches = InsertAt(@, d.at, match)]

\* The inputs that are `pairs` with one match duplicated.
Duplicated(pairs) == {WithDuplicate(pairs, d) : d \in Duplications(pairs)}

TwinBuild ==
  /\ phase = "new"
  /\ \E pairs \in Inputs :
       /\ BuildStep(pairs)
       /\ \E dup \in Duplicated(pairs) :
            LET B == BuildResult(dup)
            IN  twin' = [image_pairs |-> dup,
                         reverse_my_Map |-> B.reverse_my_Map,
                         myTracksUF |-> B.myTracksUF,
                         map_tracks |-> EmptyVec]
  /\ UNCHANGED <<lastCall, lengthAsked>>

TwinFilter == \E nLengthSupTo \in 0..MaxTrackLength :
  /\ FilterStep(nLengthSupTo)
  /\ twin' = [twin EXCEPT !.myTracksUF =
                FilterResult(twin.myTracksUF, twin.reverse_my_Map, nLengthSupTo)]
  /\ UNCHANGED <<lastCall, lengthAsked>>

TwinFilterPairWise == \E minMatchesOccurences \in 1..MaxOccurrences :
  /\ FilterPairWiseStep(minMatchesOccurences)
  /\ twin' = [twin EXCEPT !.myTracksUF =
                FilterPairWiseResult(twin.myTracksUF, twin.reverse_my_Map,
                                     minMatchesOccurences)]
  /\ UNCHANGED <<lastCall, lengthAsked>>

TwinExport ==
  /\ ExportStep
  /\ twin' = [twin EXCEPT !.map_tracks =
                ExportResult(twin.myTracksUF, twin.reverse_my_Map)]
  /\ UNCHANGED <<lastCall, lengthAsked>>

NextTwin == TwinBuild \/ TwinFilter \/ TwinFilterPairWise \/ TwinExport

SpecTwin == Init /\ [][NextTwin]_vars

-----------------------------------------------------------------------------
(* What a caller observes of a builder *)

Range(seq) == {seq[i] : i \in DOMAIN seq}

\* The members of a class, as (image, feature) pairs.
Members(uf, rmap, cls) ==
  {NodeLookup(rmap, uf.items[idx].item) : idx \in Range(ItemIt(uf, cls))}

\* The classes present, each as the set of its members.
Classes(uf, rmap) == {Members(uf, rmap, cls) : cls \in Range(ClassIt(uf))}

PresentClasses == Classes(myTracksUF, reverse_my_Map)

PresentNodes == UNION PresentClasses

ImagesOf(class) == {n.first : n \in class}

\* Two members of the class lie in the same image.
Conflicting(class) == Cardinality(ImagesOf(class)) # Cardinality(class)

\* The undirected graph of the input: one edge per match, between
\* (first, trainIdx) and (second, queryIdx).
MatchEdges(pairs) ==
  UNION {{{[first |-> pairs[p].first, second |-> pairs[p].matches[i].trainIdx],
           [first |-> pairs[p].second, second |-> pairs[p].matches[i].queryIdx]}
          : i \in DOMAIN pairs[p].matches} : p \in DOMAIN pairs}

GraphNodes(pairs) == UNION MatchEdges(pairs)

RECURSIVE ReachableFrom(_, _)
ReachableFrom(S, edges) ==
  LET more == S \cup UNION {e \in edges : e \cap S # {}}
  IN  IF more = S THEN S ELSE ReachableFrom(more, edges)

Components(pairs) ==
  {ReachableFrom({n}, MatchEdges(pairs)) : n \in GraphNodes(pairs)}

\* The tracks of a TrackMap that hold the observation n.
TracksWith(tracks, n) ==
  {t \in DOMAIN tracks : n.first \in DOMAIN tracks[t] /\ tracks[t][n.first] = n.second}

FilterCalled == lastCall.op \in {"Filter", "FilterPairWiseMinimumMatches"}

-----------------------------------------------------------------------------
(* Claims *)

AllGood(k) ==
  \A c \in PresentClasses : ~Conflicting(c) /\ Cardinality(c) >= k

\* C2: once Filter(k) has returned, every class present has members of
\* pairwise distinct images and at least k members, and this stays so through
\* every later Filter and FilterPairWiseMinimumMatches call (lengthAsked is
\* the largest k asked so far).
C2_NoImageDuplication ==
  (phase # "new" /\ lengthAsked >= 0) => AllGood(lengthAsked)

\* C2 witness: Filter(2) was called, a pairwise filter call followed, and
\* classes are still present.
C2_Witness ==
  /\ phase = "built"
  /\ lengthAsked = 2
  /\ lastCall.op = "FilterPairWiseMinimumMatches"
  /\ PresentClasses # {}

\* C3: Filter(minTrackLength) erases a class iff two of its members share an
\* image or it has fewer than minTrackLength distinct images; every other
\* class, one of length exactly minTrackLength included, is present afterwards
\* with the same members and under the same class id.
C3_FilterErasesExactly ==
  [][(phase = "built" /\ lastCall'.op = "Filter") =>
       /\ PresentClasses' =
            {c \in PresentClasses :
               ~(Conflicting(c) \/ Cardinality(ImagesOf(c)) < lastCall'.arg)}
       /\ \A cls \in Range(ClassIt(myTracksUF')) :
            /\ cls \in Range(ClassIt(myTracksUF))
            /\ Members(myTracksUF', reverse_my_Map', cls)
                 = Members(myTracksUF, reverse_my_Map, cls)]_vars

\* C3 witness: Filter(2) has kept a class of exactly two members and erased
\* another class of the input.
C3_Witness ==
  /\ lastCall = Call("Filter", 2)
  /\ \E c \in PresentClasses : Cardinality(c) = 2
  /\ Cardinality(PresentClasses) < Cardinality(Components(image_pairs))

\* C7: after Build, no call makes NbTracks() larger, and the classes present
\* after a call are among those present before it.
C7_MonotonicErasure ==
  [][phase = "built" =>
       /\ NbTracksOf(myTracksUF') <= NbTracksOf(myTracksUF)
       /\ Range(ClassIt(myTracksUF')) \subseteq Range(ClassIt(myTracksUF))
       /\ PresentClasses' \subseteq PresentClasses]_vars

\* C7 witness: a filter call has returned with fewer classes than Build made,
\* and some class is still present.
C7_Witness ==
  /\ phase = "built" /\ FilterCalled
  /\ NbTracksOf(myTracksUF) < Cardinality(Components(image_pairs))
  /\ NbTracksOf(myTracksUF) > 0

\* TracksByImage[I] and shared(I, J) over a set of classes.
TracksByImage(classes, I) == {c \in classes : I \in ImagesOf(c)}

Shared(classes, I, J) == TracksByImage(classes, I) \cap TracksByImage(classes, J)

\* The classes in shared(I, J) for some I <= J with |shared(I, J)| < m.
WeaklySupported(classes, m) ==
  {c \in classes : \E I \in ImageIds : \E J \in ImageIds :
     /\ I <= J
     /\ c \in Shared(classes, I, J)
     /\ Cardinality(Shared(classes, I, J)) < m}

\* C4: FilterPairWiseMinimumMatches(m) erases exactly the classes that lie in
\* shared(I, J) for a pair I <= J (I = J included) with |shared(I, J)| < m,
\* shared being taken over the classes present when the call starts; every
\* other class keeps its members.  In particular a class with a member in an
\* image that fewer than m classes observe is erased.
C4_PairwiseErasesExactly ==
  [][(phase = "built" /\ lastCall'.op = "FilterPairWiseMinimumMatches") =>
       /\ PresentClasses' =
            PresentClasses \ WeaklySupported(PresentClasses, lastCall'.arg)
       /\ \A cls \in Range(ClassIt(myTracksUF')) :
            Members(myTracksUF', reverse_my_Map', cls)
              = Members(myTracksUF, reverse_my_Map, cls)
       /\ \A c \in PresentClasses : \A I \in ImagesOf(c) :
            Cardinality(TracksByImage(PresentClasses, I)) < lastCall'.arg
              => c \notin PresentClasses']_vars

\* C4 witness: FilterPairWiseMinimumMatches(2) has erased a class and kept
\* another.
C4_Witness ==
  /\ lastCall = Call("FilterPairWiseMinimumMatches", 2)
  /\ PresentClasses # {}
  /\ lengthAsked = -1
  /\ Cardinality(PresentClasses) < Cardinality(Components(image_pairs))

RECURSIVE SumOfLengths(_, _)
SumOfLengths(tracks, ids) ==
  IF ids = {} THEN 0
  ELSE LET t == CHOOSE x \in ids : TRUE
       IN  Size(tracks[t]) + SumOfLengths(tracks, ids \ {t})

\* C5: whatever filter calls came between Build and ExportToSTL, the lengths
\* of the exported tracks add up to the number of nodes of the classes
\* present.
C5_ExportCompleteness ==
  phase = "exported" =>
    SumOfLengths(map_tracks, DOMAIN map_tracks) = Cardinality(PresentNodes)

\* C8: ExportToSTL does not return a TrackMap when a class present has two
\* members of the same image: it reports an internal error instead.
C8_ExportReportsConflict ==
  phase = "exported" => \A c \in PresentClasses : ~Conflicting(c)

\* The matches of the input whose pair has the same image on both sides.
SelfMatches(pairs) ==
  UNION {{[image |-> pairs[p].first, trainIdx |-> pairs[p].matches[i].trainIdx,
           queryIdx |-> pairs[p].matches[i].queryIdx]
          : i \in DOMAIN pairs[p].matches}
         : p \in {q \in DOMAIN pairs : pairs[q].first = pairs[q].second}}

\* C9 as claimed: after Filter(minTrackLength), for every minTrackLength, no
\* class present holds an endpoint of a match whose pair has the same image on
\* both sides (trainIdx = queryIdx included).
C9_SelfMatchAlwaysRemoved ==
  lastCall.op = "Filter" =>
    \A m \in SelfMatches(image_pairs) :
      /\ [first |-> m.image, second |-> m.trainIdx] \notin PresentNodes
      /\ [first |-> m.image, second |-> m.queryIdx] \notin PresentNodes

\* C9 as amended: the same for the matches with trainIdx # queryIdx, whose
\* endpoints are two nodes of one image.
C9_SelfMatchConflictRemoved ==
  lastCall.op = "Filter" =>
    \A m \in SelfMatches(image_pairs) :
      m.trainIdx # m.queryIdx =>
        /\ [first |-> m.image, second |-> m.trainIdx] \notin PresentNodes
        /\ [first |-> m.image, second |-> m.queryIdx] \notin PresentNodes

\* C9 witness: Filter(0) has returned on an input with a match between two
\* features of one image, next to a class that survived.
C9_Witness ==
  /\ lastCall = Call("Filter", 0)
  /\ \E m \in SelfMatches(image_pairs) : m.trainIdx # m.queryIdx
  /\ PresentClasses # {}

\* C10 as claimed: after FilterPairWiseMinimumMatches(m), every pair of images
\* (I = J included) that still shares a class shares at least m classes, so
\* that a second call with the same m erases nothing.
C10_PairwiseFixpoint ==
  lastCall.op = "FilterPairWiseMinimumMatches" =>
    /\ \A I \in ImageIds : \A J \in ImageIds :
         Shared(PresentClasses, I, J) # {} =>
           Cardinality(Shared(PresentClasses, I, J)) >= lastCall.arg
    /\ Classes(FilterPairWiseResult(myTracksUF, reverse_my_Map, lastCall.arg),
               reverse_my_Map) = PresentClasses

\* C10 as amended: after FilterPairWiseMinimumMatches(m), no class present has
\* members in both images of a pair (I = J included) that shared fewer than m
\* classes when the call started.
C10_WeakPairsEmptied ==
  [][(phase = "built" /\ lastCall'.op = "FilterPairWiseMinimumMatches") =>
       \A I \in ImageIds : \A J \in ImageIds :
         Cardinality(Shared(PresentClasses, I, J)) < lastCall'.arg
           => Shared(PresentClasses', I, J) = {}]_vars

\* C10 witness: FilterPairWiseMinimumMatches(2) has returned leaving a single
\* class, so an image that had enough classes before the call has one now.
C10_Witness ==
  /\ lastCall = Call("FilterPairWiseMinimumMatches", 2)
  /\ Cardinality(PresentClasses) = 1
  /\ Cardinality(Components(image_pairs)) >= 2

-----------------------------------------------------------------------------
(* Claims about the two builders *)

TwinClasses == Classes(twin.myTracksUF, twin.reverse_my_Map)

\* C6 as claimed: the TrackMap exported after a duplicate of one match was
\* added to the input is identical to the one exported without it, TrackId
\* numbering included.
C6_DuplicateSameTrackMap ==
  phase = "exported" => twin.map_tracks = map_tracks

\* C6 as amended: with the duplicate the same classes are present after every
\* call, the TrackMap has the same number of tracks, and when no class present
\* has two members of one image it holds the same tracks, possibly under
\* other TrackIds.
C6_DuplicateSameTracks ==
  /\ phase # "new" => TwinClasses = PresentClasses
  /\ phase = "exported" =>
       /\ Size(twin.map_tracks) = Size(map_tracks)
       /\ (\A c \in PresentClasses : ~Conflicting(c)) =>
             Range(twin.map_tracks) = Range(map_tracks)

\* C6 witness: both builders have exported two tracks free of conflict, and
\* the duplicate has changed their numbering.
C6_Witness ==
  /\ phase = "exported"
  /\ Size(map_tracks) = 2
  /\ \A c \in PresentClasses : ~Conflicting(c)
  /\ twin.map_tracks # map_tracks

=============================================================================
